---- MODULE Spec2Model ----
(***************************************************************************)
(* A model of versions.py: the paged tracker query (jira_query), the       *)
(* release-label update (UpdateRunner.run) and the commit/issue            *)
(* reconciliation (ValidateRunner.run).                                    *)
(*                                                                         *)
(* Python strings are modelled as sequences of lexemes: the key            *)
(* "HADOOP-1" is <<"HADOOP-1">>, the text "This reverts commit a1" is      *)
(* <<"This reverts commit ", "a1">>, and string concatenation is \o.  A    *)
(* regular expression is matched lexeme by lexeme.  In the excludes file   *)
(* of the update operation every lexeme is one character.                  *)
(***************************************************************************)
EXTENDS Integers, Sequences, FiniteSets, TLC

VARIABLES
    \* jira_query
    q_pc, q_total, q_issues,
    \* the release-label rule on one issue of the tracker
    l_old, l_fix, l_before, l_after, l_runs,
    \* UpdateRunner.run
    u_pc, u_args, u_tracker, u_excludes, u_issues, u_i, u_confirmed,
    u_outfile, u_read, u_updates,
    \* ValidateRunner.run
    v_pc, commits, fixups, ignore, ignore_jiras, issues, to_skip,
    commits_by_id, unidentified_commits, issues_by_id,
    issues_missing_commits, commits_missing_issues, exit_status

q_vars == <<q_pc, q_total, q_issues>>
l_vars == <<l_old, l_fix, l_before, l_after, l_runs>>
u_vars == <<u_pc, u_args, u_tracker, u_excludes, u_issues, u_i, u_confirmed,
            u_outfile, u_read, u_updates>>
v_vars == <<v_pc, commits, fixups, ignore, ignore_jiras, issues, to_skip,
            commits_by_id, unidentified_commits, issues_by_id,
            issues_missing_commits, commits_missing_issues, exit_status>>
vars == <<q_vars, l_vars, u_vars, v_vars>>

Min(a, b) == IF a <= b THEN a ELSE b

Range(s) == {s[i] : i \in 1..Len(s)}

(***************************************************************************)
(* jira_query                                                              *)
(***************************************************************************)

\* The largest result set of the tracker in the model.
MaxTotal == 201

max_results == 100

\* The result set of the query on the server: issue i is at position i.
ServerResult(total) == [i \in 1..total |-> i]

\* The page limits a server may apply to one request, whatever maxResults asks.
ServerCaps == {1, 2, max_results \div 2, max_results, 2 * max_results}

\* jira.search_issues(query, startAt, maxResults): the issues at positions
\* startAt .. startAt + maxResults - 1 (0-based), at most cap of them.
search_issues(result, startAt, maxResults, cap) ==
    SubSeq(result, startAt + 1, Min(startAt + Min(maxResults, cap), Len(result)))

\* The position a request starts at: startAt=len(issues).
StartAt(fetched) == Len(fetched)

\* The loop's exit test after a batch was appended; first a variant that
\* stops one issue short of the total.
BreakOffByOne(batch, fetched, total) == Len(batch) = 0 \/ Len(fetched) + 1 >= total
Break(batch, fetched, total) == Len(batch) = 0 \/ Len(fetched) >= total

\* One iteration of the while loop: fetch a batch, append it, test for the end.
jira_query_iter(fetched, result, cap) ==
    LET batch == search_issues(result, StartAt(fetched), max_results, cap)
        grown == fetched \o batch
    IN  [issues |-> grown, stop |-> Break(batch, grown, Len(result))]

\* jira_query as a function: the loop run to its end against a server that
\* serves full pages.
RECURSIVE jira_query_loop(_, _)
jira_query_loop(fetched, result) ==
    LET it == jira_query_iter(fetched, result, max_results)
    IN  IF it.stop THEN it.issues ELSE jira_query_loop(it.issues, result)

jira_query(result) == jira_query_loop(<<>>, result)

QIdle == q_pc = "idle" /\ q_total = 0 /\ q_issues = <<>>

QInit ==
    /\ q_pc = "loop"
    /\ q_total \in 0..MaxTotal
    /\ q_issues = <<>>

QueryStep ==
    /\ q_pc = "loop"
    /\ \E cap \in ServerCaps :
        LET it == jira_query_iter(q_issues, ServerResult(q_total), cap)
        IN  /\ q_issues' = it.issues
            /\ q_pc' = IF it.stop THEN "done" ELSE "loop"
    /\ UNCHANGED <<q_total, l_vars, u_vars, v_vars>>

QNext == QueryStep

(***************************************************************************)
(* The release-label rule of UpdateRunner.run.  A label is compared only   *)
(* for equality and is a plain string.                                     *)
(***************************************************************************)

\* The longest label list of an issue, and the number of update runs.
MaxLabels == 3
MaxRuns == 2

Alpha1 == "3.0.0-alpha1"
Alpha2 == "3.0.0-alpha2"

FixVersionNames == {"2.7.0", "2.8.0", Alpha1, Alpha2}

SeqsUpTo(S, n) == UNION {[1..k -> S] : k \in 0..n}

\* fix_versions after lines 131-135: append 3.0.0-alpha1 when it is not
\* there, then drop every 3.0.0-alpha2; first a variant without the test of
\* line 132.
AppendAlways(fix_versions) ==
    SelectSeq(Append(fix_versions, Alpha1), LAMBDA f : f # Alpha2)
NewFixVersions(fix_versions) ==
    LET added == IF Alpha1 \notin Range(fix_versions)
                 THEN Append(fix_versions, Alpha1)
                 ELSE fix_versions
    IN  SelectSeq(added, LAMBDA f : f # Alpha2)

LIdle == l_old = <<>> /\ l_fix = <<>> /\ l_before = <<>> /\ l_after = <<>> /\ l_runs = 0

LInit ==
    /\ l_old \in SeqsUpTo(FixVersionNames, MaxLabels)
    /\ l_fix = l_old
    /\ l_before = <<>>
    /\ l_after = <<>>
    /\ l_runs = 0

\* One forced run of the update over the issue: the old labels are read and
\* logged, the new ones computed, logged and sent with issue.update.
UpdateIssueLabels ==
    /\ l_runs < MaxRuns
    /\ l_before' = l_fix
    /\ l_after' = NewFixVersions(l_fix)
    /\ l_fix' = NewFixVersions(l_fix)
    /\ l_runs' = l_runs + 1
    /\ UNCHANGED <<l_old, q_vars, u_vars, v_vars>>

LNext == UpdateIssueLabels

(***************************************************************************)
(* UpdateRunner.run.  The text of the excludes file and the issue keys it  *)
(* is compared with are sequences of characters.                           *)
(***************************************************************************)

\* The most lines an excludes file has in the model.
MaxExcludeLines == 2

None == <<"None">>

NL == "\n"

\* Two issue keys, "Y-4" and "Y-43": the first is the second less its last
\* character.
UpdateKeys == {<<"Y", "-", "4">>, <<"Y", "-", "4", "3">>}

\* The label lists of the issues the query returns.
UpdateFixVersions == {<<"2.7.0">>, <<"2.8.0", Alpha2>>}

\* The result sets of the tracker: each key at most once.
TrackerResults ==
    {t \in SeqsUpTo([key : UpdateKeys, fixVersions : UpdateFixVersions],
                    Cardinality(UpdateKeys)) :
        \A i, j \in 1..Len(t) : t[i].key = t[j].key => i = j}

\* The text of a file with one key per line; the last line ends with a
\* newline or not.
RECURSIVE FileText(_, _)
FileText(keys, final_newline) ==
    IF keys = <<>> THEN <<>>
    ELSE IF Len(keys) = 1 /\ ~final_newline THEN keys[1]
    ELSE keys[1] \o <<NL>> \o FileText(Tail(keys), final_newline)

ExcludeFiles ==
    {FileText(keys, nl) : keys \in SeqsUpTo(UpdateKeys, MaxExcludeLines),
                          nl \in BOOLEAN}

\* file.readlines(): the lines of the text, each with its newline when it
\* has one.
RECURSIVE readlines(_)
readlines(text) ==
    IF text = <<>> THEN <<>>
    ELSE LET ends == {i \in 1..Len(text) : text[i] = NL}
             n == IF ends = {} THEN Len(text)
                  ELSE CHOOSE i \in ends : \A j \in ends : i <= j
         IN  <<SubSeq(text, 1, n)>> \o readlines(SubSeq(text, n + 1, Len(text)))

\* x[:-1]
StripNewline(x) == IF x # <<>> /\ x[Len(x)] = NL THEN SubSeq(x, 1, Len(x) - 1) ELSE x
DropLast(x) == SubSeq(x, 1, Len(x) - 1)

\* excludes = [x[:-1] for x in e.readlines()], [] without --excludes
ParseExcludes(file) ==
    IF file = None THEN <<>>
    ELSE LET lines == readlines(file)
         IN  [i \in 1..Len(lines) |-> DropLast(lines[i])]

\* Where run goes after its set-up: raw_input() under --force; first a
\* variant that never waits for the operator.
AfterSetupNoConfirm(force) == "query"
AfterSetup(force) == IF force THEN "confirm" ELSE "query"

\* if args.force: issue.update(...)
ShouldUpdate(force) == force

\* if issue.key in excludes: continue
IsExcluded(key, excludes) == key \in Range(excludes)

UIdle ==
    /\ u_pc = "idle"
    /\ u_args = None
    /\ u_tracker = <<>>
    /\ u_excludes = <<>>
    /\ u_issues = <<>>
    /\ u_i = 0
    /\ u_confirmed = FALSE
    /\ u_outfile = None
    /\ u_read = {}
    /\ u_updates = <<>>

UInit ==
    /\ u_pc = "start"
    /\ u_args \in [force : BOOLEAN, output : BOOLEAN,
                   excludes : {None} \cup ExcludeFiles]
    /\ u_tracker \in TrackerResults
    /\ u_excludes = <<>>
    /\ u_issues = <<>>
    /\ u_i = 0
    /\ u_confirmed = FALSE
    /\ u_outfile = None
    /\ u_read = {}
    /\ u_updates = <<>>

\* Lines 75-96: open the output file, read the excludes file, announce the
\* mode.
USetup ==
    /\ u_pc = "start"
    /\ u_outfile' = IF u_args.output THEN <<>> ELSE None
    /\ u_excludes' = ParseExcludes(u_args.excludes)
    /\ u_pc' = AfterSetup(u_args.force)
    /\ UNCHANGED <<q_vars, l_vars, v_vars, u_args, u_tracker, u_issues, u_i, u_confirmed, u_read, u_updates>>

\* Line 93: raw_input() returns, the operator pressed enter.
UConfirm ==
    /\ u_pc = "confirm"
    /\ u_confirmed' = TRUE
    /\ u_pc' = "query"
    /\ UNCHANGED <<q_vars, l_vars, v_vars, u_args, u_tracker, u_excludes, u_issues, u_i, u_outfile,
                   u_read, u_updates>>

\* Line 93: the operator pressed Ctrl-C, KeyboardInterrupt ends the run.
UCancel ==
    /\ u_pc = "confirm"
    /\ u_pc' = "cancelled"
    /\ UNCHANGED <<q_vars, l_vars, v_vars, u_args, u_tracker, u_excludes, u_issues, u_i, u_confirmed,
                   u_outfile, u_read, u_updates>>

\* Lines 97-106
UQuery ==
    /\ u_pc = "query"
    /\ u_issues' = jira_query(u_tracker)
    /\ u_i' = 1
    /\ u_pc' = "loop"
    /\ UNCHANGED <<q_vars, l_vars, v_vars, u_args, u_tracker, u_excludes, u_confirmed, u_outfile,
                   u_read, u_updates>>

\* Lines 109-111: an excluded issue is passed over.
USkipIssue ==
    /\ u_pc = "loop"
    /\ u_i <= Len(u_issues)
    /\ IsExcluded(u_issues[u_i].key, u_excludes)
    /\ u_i' = u_i + 1
    /\ UNCHANGED <<q_vars, l_vars, v_vars, u_pc, u_args, u_tracker, u_excludes, u_issues, u_confirmed,
                   u_outfile, u_read, u_updates>>

\* Lines 113-145: one issue's labels are read, logged, recomputed, logged and,
\* under --force, sent to the tracker.  The lookup of the issue's project
\* (lines 115-118) reads the tracker and changes nothing.
UIssue ==
    /\ u_pc = "loop"
    /\ u_i <= Len(u_issues)
    /\ ~IsExcluded(u_issues[u_i].key, u_excludes)
    /\ LET issue == u_issues[u_i]
           old == issue.fixVersions
           new == NewFixVersions(old)
       IN  /\ u_read' = u_read \cup {issue.key}
           /\ u_outfile' =
                IF u_outfile = None THEN None
                ELSE u_outfile \o <<[key |-> issue.key, what |-> "old", names |-> old],
                                    [key |-> issue.key, what |-> "new", names |-> new]>>
           /\ IF ShouldUpdate(u_args.force)
              THEN /\ u_updates' = Append(u_updates, [key |-> issue.key, fixVersions |-> new])
                   /\ u_tracker' = [j \in 1..Len(u_tracker) |->
                                      IF u_tracker[j].key = issue.key
                                      THEN [u_tracker[j] EXCEPT !.fixVersions = new]
                                      ELSE u_tracker[j]]
              ELSE UNCHANGED <<u_updates, u_tracker>>
    /\ u_i' = u_i + 1
    /\ UNCHANGED <<q_vars, l_vars, v_vars, u_pc, u_args, u_excludes, u_issues, u_confirmed>>

\* Lines 147-148
UFinish ==
    /\ u_pc = "loop"
    /\ u_i > Len(u_issues)
    /\ u_pc' = "done"
    /\ UNCHANGED <<q_vars, l_vars, v_vars, u_args, u_tracker, u_excludes, u_issues, u_i, u_confirmed,
                   u_outfile, u_read, u_updates>>

UNext ==
    \/ USetup
    \/ UConfirm
    \/ UCancel
    \/ UQuery
    \/ USkipIssue
    \/ UIssue
    \/ UFinish

(***************************************************************************)
(* ValidateRunner.run                                                      *)
(***************************************************************************)

\* The most commits between start_ref and end_ref in the model.
MaxCommits == 2

\* Lexemes.  The first matches no pattern, the second is the fixed text of
\* revert_pattern, the third matches merge_pattern.
OtherText == "Revert a change"
RevertPhrase == "This reverts commit "
MergeText == "Merge branch 'b' into trunk"

\* Lexemes that match (HADOOP|HDFS|MAPREDUCE|YARN)-[0-9]+
JiraKeyNames == {"HADOOP-1", "YARN-2"}

\* Lexemes that match [0-9a-f]+: the hashes of the commits, in the order of
\* the commit list, and the hash of a commit outside start_ref...end_ref.
HexPool == <<"a1", "b2", "c3", "d4">>
AbsentHex == "ff"
HexNames == Range(HexPool) \cup {AbsentHex}

NoMatch == [found |-> FALSE, group0 |-> <<>>, group1 |-> <<>>]

\* pattern.match(message): an issue key of a known project at the start.
pattern_match(message) ==
    IF message # <<>> /\ message[1] \in JiraKeyNames
    THEN [found |-> TRUE, group0 |-> <<message[1]>>, group1 |-> <<>>]
    ELSE NoMatch

\* revert_pattern at position i of the message.
RevertAt(message, i) ==
    /\ i + 1 <= Len(message)
    /\ message[i] = RevertPhrase
    /\ message[i + 1] \in HexNames

RevertGroups(message, i) ==
    [found |-> TRUE, group0 |-> <<message[i], message[i + 1]>>,
     group1 |-> <<message[i + 1]>>]

\* revert_pattern.search(message): the first match anywhere in the message.
revert_pattern_search(message) ==
    LET at == {i \in 1..Len(message) : RevertAt(message, i)}
    IN  IF at = {} THEN NoMatch
        ELSE RevertGroups(message, CHOOSE i \in at : \A j \in at : i <= j)

\* revert_pattern.match(message): a match at the start of the message.
revert_pattern_match(message) ==
    IF RevertAt(message, 1) THEN RevertGroups(message, 1) ELSE NoMatch

\* merge_pattern.search(message)
merge_pattern_search(message) == \E i \in 1..Len(message) : message[i] = MergeText

\* [c.hexsha for c in commits]
Hexshas(cs) == {cs[i].hexsha : i \in 1..Len(cs)}

\* Lines 236-244: one commit of the revert filter; first a variant without
\* the test of line 242, which skips a revert whatever it names.
RevertFilterUnpaired(skip, commit, cs) ==
    LET match == revert_pattern_search(commit.message)
    IN  IF match.found THEN skip \cup {commit.hexsha} ELSE skip
RevertFilter(skip, commit, cs) ==
    LET match == revert_pattern_search(commit.message)
    IN  IF match.found /\ match.group1 \in Hexshas(cs)
        THEN skip \cup {commit.hexsha, match.group1}
        ELSE skip

\* Lines 248-251: one commit of the merge filter; first a variant that
\* skips nothing.
MergeFilterOff(skip, commit) == skip
MergeFilter(skip, commit) ==
    IF merge_pattern_search(commit.message) THEN skip \cup {commit.hexsha} ELSE skip

RECURSIVE RevertLoop(_, _, _)
RevertLoop(skip, rest, cs) ==
    IF rest = <<>> THEN skip
    ELSE RevertLoop(RevertFilter(skip, Head(rest), cs), Tail(rest), cs)

RECURSIVE MergeLoop(_, _)
MergeLoop(skip, rest) ==
    IF rest = <<>> THEN skip
    ELSE MergeLoop(MergeFilter(skip, Head(rest)), Tail(rest))

\* Lines 232-251
ToSkip(ign, cs) == MergeLoop(RevertLoop(ign, cs, cs), cs)

\* fixups.get(commit.hexsha)
NoFixup == [type |-> "NoneType", val |-> <<>>]
FixupGet(fx, hexsha) == IF hexsha \in DOMAIN fx THEN fx[hexsha] ELSE NoFixup

\* Lines 263-267.  None is modelled as the empty list: line 269 takes both
\* for "no jira_ids".
JiraIds(fix) ==
    IF fix.type = "list" THEN fix.val
    ELSE IF fix.type = "str" THEN <<fix.val>>
    ELSE <<>>

\* Lines 282-285: the commit is appended to the list of every jira_id.
RECURSIVE AppendUnder(_, _, _)
AppendUnder(by_id, jira_ids, commit) ==
    IF jira_ids = <<>> THEN by_id
    ELSE LET jira_id == Head(jira_ids)
             list == IF jira_id \in DOMAIN by_id THEN by_id[jira_id] ELSE <<>>
             next == [k \in DOMAIN by_id \cup {jira_id} |->
                        IF k = jira_id THEN Append(list, commit) ELSE by_id[k]]
         IN  AppendUnder(next, Tail(jira_ids), commit)

\* Lines 273-281: the key of a commit without fixup, from its message.
MessageKey(message) ==
    LET match == pattern_match(message)
    IN  IF match.found THEN match
        ELSE revert_pattern_match(message)

\* Lines 257-285: one commit of the indexing loop; st holds commits_by_id and
\* unidentified_commits.
IndexCommit(st, commit, fx, skip) ==
    LET jira_ids == JiraIds(FixupGet(fx, commit.hexsha))
        match == MessageKey(commit.message)
    IN  IF jira_ids # <<>>
        THEN [st EXCEPT !.by_id = AppendUnder(@, jira_ids, commit)]
        ELSE IF commit.hexsha \in skip THEN st
        ELSE IF ~match.found
        THEN [st EXCEPT !.unidentified = Append(@, commit)]
        ELSE [st EXCEPT !.by_id = AppendUnder(@, <<match.group0>>, commit)]

RECURSIVE IndexLoop(_, _, _, _)
IndexLoop(st, rest, fx, skip) ==
    IF rest = <<>> THEN st
    ELSE IndexLoop(IndexCommit(st, Head(rest), fx, skip), Tail(rest), fx, skip)

\* Lines 254-285
Index(cs, fx, skip) == IndexLoop([by_id |-> <<>>, unidentified |-> <<>>], cs, fx, skip)

\* Lines 303-310: the keys of issues_by_id, and the dict.
\* KnownKeysQueriedOnly is a variant without the loop of lines 304-308.
FixupKeys(fx) == UNION {Range(JiraIds(fx[h])) : h \in DOMAIN fx}
IssueKeys(is) == {is[i].key : i \in 1..Len(is)}
KnownKeysQueriedOnly(fx, is) == IssueKeys(is)
KnownKeys(fx, is) == FixupKeys(fx) \cup IssueKeys(is)
IssuesById(fx, is) ==
    [k \in KnownKeys(fx, is) |->
        IF k \in IssueKeys(is) THEN [key |-> k] ELSE None]

\* Lines 312-315; first a variant that does not read ignore_jiras.
IssuesMissingCommitsNoIgnore(is, by_id, ign_jiras) ==
    SelectSeq(is, LAMBDA issue : issue.key \notin DOMAIN by_id)
IssuesMissingCommits(is, by_id, ign_jiras) ==
    SelectSeq(is, LAMBDA issue : issue.key \notin DOMAIN by_id
                                 /\ issue.key \notin ign_jiras)

\* Lines 316-319: the keys reported; commits_by_id.iteritems() visits them in
\* the dict's order, which is any order.
MissingIssueKeys(by_id, known) == {k \in DOMAIN by_id : k \notin DOMAIN known}

Orders(S) == {o \in [1..Cardinality(S) -> S] : \A i, j \in DOMAIN o : o[i] = o[j] => i = j}

\* Lines 321-341; first a variant without line 326.
NumIssuesNoUnidentified(unidentified, missing_commits, missing_issues) ==
    Len(missing_commits) + Len(missing_issues)
NumIssues(unidentified, missing_commits, missing_issues) ==
    Len(unidentified) + Len(missing_commits) + Len(missing_issues)
ReturnValue(num_issues) == IF num_issues > 0 THEN 1 ELSE 0

\* The inputs of a run.
Sha(i) == <<HexPool[i]>>

\* The messages of commit i of n.  A commit's hash covers its message, so no
\* message names its own commit.
OtherHex(i, n) == {HexPool[j] : j \in (1..n) \ {i}}
MessagesOf(i, n) ==
    {<<"HADOOP-1", ". Fix a thing">>, <<OtherText>>, <<MergeText>>,
     <<"HADOOP-1", ". ", MergeText>>, <<RevertPhrase, AbsentHex>>}
    \cup {<<OtherText, RevertPhrase, h>> : h \in OtherHex(i, n)}
    \cup {<<RevertPhrase, AbsentHex, RevertPhrase, h>> : h \in OtherHex(i, n)}

CommitLists(n) ==
    LET all == UNION {MessagesOf(i, n) : i \in 1..n}
    IN  {[i \in 1..n |-> [hexsha |-> Sha(i), message |-> m[i]]] :
            m \in {x \in [1..n -> all] : \A i \in 1..n : x[i] \in MessagesOf(i, n)}}

FixupValues ==
    {[type |-> "str", val |-> <<"YARN-2">>],
     [type |-> "list", val |-> <<>>],
     [type |-> "list", val |-> << <<"HADOOP-1">>, <<"YARN-2">> >>]}

\* The fixup maps: no entry, or one entry for a commit or for a hash that is
\* not among the commits.
FixupMaps(n) ==
    {<<>>} \cup {[h \in {g} |-> v] : g \in {Sha(i) : i \in 1..n} \cup {<<AbsentHex>>},
                                    v \in FixupValues}

IgnoreSets(n) == {{}} \cup {{Sha(i)} : i \in 1..n}

IgnoreJiraSets == {{}, {<<"HADOOP-1">>}}

\* The result sets of the tracker's query for the fix version.
IssueResults == {<<>>, <<[key |-> <<"HADOOP-1">>]>>, <<[key |-> <<"YARN-2">>]>>,
                 <<[key |-> <<"HADOOP-1">>], [key |-> <<"YARN-2">>]>>}

VIdle ==
    /\ v_pc = "idle"
    /\ commits = <<>>
    /\ fixups = <<>>
    /\ ignore = {}
    /\ ignore_jiras = {}
    /\ issues = <<>>
    /\ to_skip = {}
    /\ commits_by_id = <<>>
    /\ unidentified_commits = <<>>
    /\ issues_by_id = <<>>
    /\ issues_missing_commits = <<>>
    /\ commits_missing_issues = <<>>
    /\ exit_status = -1

\* The environment of a run: the commits of the range, the metadata file
\* (fixups, ignore, ignore_jiras) and the tracker's result for the fix version.
VInit ==
    /\ v_pc = "start"
    /\ \E n \in 0..MaxCommits :
        /\ commits \in CommitLists(n)
        /\ fixups \in FixupMaps(n)
        /\ ignore \in IgnoreSets(n)
    /\ ignore_jiras \in IgnoreJiraSets
    /\ issues \in IssueResults
    /\ to_skip = {}
    /\ commits_by_id = <<>>
    /\ unidentified_commits = <<>>
    /\ issues_by_id = <<>>
    /\ issues_missing_commits = <<>>
    /\ commits_missing_issues = <<>>
    /\ exit_status = -1

\* main with the validate subcommand: ValidateRunner.run reconciles the
\* commits and the issues, and its return value is the exit status.  The
\* variable issues holds the tracker's result before the run and the issues
\* jira_query fetched after it.
Validate ==
    /\ v_pc = "start"
    /\ LET skip == ToSkip(ignore, commits)
           st == Index(commits, fixups, skip)
           is == jira_query(issues)
           known == IssuesById(fixups, is)
           missing_commits == IssuesMissingCommits(is, st.by_id, ignore_jiras)
       IN  /\ issues' = is
           /\ to_skip' = skip
           /\ commits_by_id' = st.by_id
           /\ unidentified_commits' = st.unidentified
           /\ issues_by_id' = known
           /\ issues_missing_commits' = missing_commits
           /\ \E order \in Orders(MissingIssueKeys(st.by_id, known)) :
                /\ commits_missing_issues' =
                     [i \in DOMAIN order |-> <<order[i], st.by_id[order[i]]>>]
                /\ exit_status' =
                     ReturnValue(NumIssues(st.unidentified, missing_commits,
                                           commits_missing_issues'))
    /\ v_pc' = "exited"
    /\ UNCHANGED <<commits, fixups, ignore, ignore_jiras, q_vars, l_vars, u_vars>>

VNext == Validate

(***************************************************************************)
(* Specifications: one per operation of the program                        *)
(***************************************************************************)

InitUpdate == UInit /\ QIdle /\ LIdle /\ VIdle

SpecUpdate == InitUpdate /\ [][UNext]_vars

InitValidate == VInit /\ QIdle /\ LIdle /\ UIdle

SpecValidate == InitValidate /\ [][VNext]_vars

InitLabels == LInit /\ QIdle /\ UIdle /\ VIdle

SpecLabels == InitLabels /\ [][LNext]_vars

InitQuery == QInit /\ LIdle /\ UIdle /\ VIdle

\* The loop is sequential code: an enabled iteration is eventually executed.
SpecQuery == InitQuery /\ [][QNext]_vars /\ WF_vars(QNext)

(***************************************************************************)
(* Properties                                                              *)
(***************************************************************************)

Exited == v_pc = "exited"

CommitSet == Range(commits)

\* The keys of the index a commit is listed under.
KeysOf(c) == {k \in DOMAIN commits_by_id : c \in Range(commits_by_id[k])}

\* The issue keys the fixup map declares for a hash: one key or a list.
DeclaredFor(hexsha) ==
    IF hexsha \notin DOMAIN fixups THEN {}
    ELSE IF fixups[hexsha].type = "list" THEN Range(fixups[hexsha].val)
    ELSE {fixups[hexsha].val}

AllDeclared == UNION {DeclaredFor(h) : h \in DOMAIN fixups}

IsMerge(c) == \E i \in 1..Len(c.message) : c.message[i] = MergeText

\* The places of "This reverts commit <hex>" in a message, the hashes named
\* there, and the hash the first place names.
RevertPlaces(c) ==
    {i \in 1..Len(c.message) - 1 :
        c.message[i] = RevertPhrase /\ c.message[i + 1] \in HexNames}
RevertedHashes(c) == {<<c.message[i + 1]>> : i \in RevertPlaces(c)}
FirstReverted(c) ==
    LET i == CHOOSE i \in RevertPlaces(c) : \A j \in RevertPlaces(c) : i <= j
    IN  <<c.message[i + 1]>>
CommitOf(hexsha) == CHOOSE d \in CommitSet : d.hexsha = hexsha
RevertedByAnother(c) ==
    \E d \in CommitSet : RevertPlaces(d) # {} /\ FirstReverted(d) = c.hexsha

Unidentified(c) == c \in Range(unidentified_commits)
MissingIssue(c) ==
    \E i \in DOMAIN commits_missing_issues : c \in Range(commits_missing_issues[i][2])
Matched(c) == \E k \in KeysOf(c) : k \in DOMAIN issues_by_id

KeyMatched(k) == k \in DOMAIN commits_by_id /\ k \in DOMAIN issues_by_id
KeyMissingIssue(k) ==
    \E i \in DOMAIN commits_missing_issues : commits_missing_issues[i][1] = k
KeyMissingCommits(k) ==
    \E i \in DOMAIN issues_missing_commits : issues_missing_commits[i].key = k

AllKeys == DOMAIN commits_by_id \cup DOMAIN issues_by_id \cup ignore_jiras

\* C1 as stated: a commit whose message matches the merge pattern is under
\* no key of the commit index, whatever the fixup map holds.
C1_MergeNeverIndexed ==
    Exited => \A c \in CommitSet : IsMerge(c) => KeysOf(c) = {}

\* C1 amended: a commit whose message matches the merge pattern is under no
\* key of the commit index unless the fixup map holds a non-empty entry for
\* its hash, and then it is under exactly the keys of that entry.
C1_MergeIndexedOnlyByFixup ==
    Exited => \A c \in CommitSet : IsMerge(c) => KeysOf(c) = DeclaredFor(c.hexsha)

C1_Witness ==
    /\ Exited
    /\ \E c, d \in CommitSet :
        /\ IsMerge(c) /\ DeclaredFor(c.hexsha) = {} /\ c.message[1] \in JiraKeyNames
        /\ c.hexsha \notin ignore
        /\ IsMerge(d) /\ DeclaredFor(d.hexsha) # {} /\ KeysOf(d) # {}

\* Why a commit whose revert names no commit of the sequence may still be in
\* the skip set.
SkippedOtherwise(c) == c.hexsha \in ignore \/ IsMerge(c) \/ RevertedByAnother(c)

\* C2 as stated: when a message contains "This reverts commit H" and H is the
\* hash of a commit D of the sequence, neither the commit nor D is under a
\* key of the index; when no H it names is a commit's hash, the revert rule
\* does not skip it and it takes part in indexing.
C2_RevertPairNeverIndexed ==
    Exited => \A c \in CommitSet :
        /\ \A h \in RevertedHashes(c) :
            h \in Hexshas(commits) => KeysOf(c) = {} /\ KeysOf(CommitOf(h)) = {}
        /\ RevertedHashes(c) # {} /\ RevertedHashes(c) \cap Hexshas(commits) = {} =>
            /\ c.hexsha \in to_skip => SkippedOtherwise(c)
            /\ c.hexsha \notin to_skip => KeysOf(c) # {} \/ Unidentified(c)

\* C2 amended: with H the hash named by the first "This reverts commit" of a
\* message: when H is the hash of a commit D of the sequence, before or after,
\* the commit and D are both in the skip set, neither is unidentified, and
\* each is under exactly the keys a fixup entry declares for it (none without
\* an entry); when H is no commit's hash, the commit is in the skip set only
\* as an ignored, merge or reverted commit, and outside the skip set it is
\* indexed or unidentified.
C2_RevertPairIndexedOnlyByFixup ==
    Exited => \A c \in CommitSet : RevertPlaces(c) # {} =>
        LET h == FirstReverted(c)
        IN  /\ h \in Hexshas(commits) =>
                \A x \in {c, CommitOf(h)} :
                    /\ x.hexsha \in to_skip
                    /\ KeysOf(x) = DeclaredFor(x.hexsha)
                    /\ ~Unidentified(x)
            /\ h \notin Hexshas(commits) =>
                /\ c.hexsha \in to_skip <=> SkippedOtherwise(c)
                /\ c.hexsha \notin to_skip => KeysOf(c) # {} \/ Unidentified(c)

C2_Witness ==
    /\ Exited
    /\ Len(commits) = 2
    /\ RevertPlaces(commits[2]) # {}
    /\ FirstReverted(commits[2]) = commits[1].hexsha
    /\ commits[1].message[1] \in JiraKeyNames
    /\ commits_by_id = <<>>
    /\ to_skip = Hexshas(commits)
    /\ ignore = {}

\* C3 as stated: no commit and no issue key is in more than one of the
\* buckets matched, unidentified or missing an issue, missing commits; and an
\* ignored commit or an ignored issue key is in none of them.
C3_BucketsDisjointIgnoredInNone ==
    Exited =>
        /\ \A c \in CommitSet : ~(Matched(c) /\ (Unidentified(c) \/ MissingIssue(c)))
        /\ \A k \in AllKeys :
            /\ ~(KeyMatched(k) /\ KeyMissingIssue(k))
            /\ ~(KeyMatched(k) /\ KeyMissingCommits(k))
            /\ ~(KeyMissingIssue(k) /\ KeyMissingCommits(k))
        /\ \A c \in CommitSet : c.hexsha \in ignore =>
            ~Matched(c) /\ ~Unidentified(c) /\ ~MissingIssue(c)
        /\ \A k \in ignore_jiras :
            ~KeyMatched(k) /\ ~KeyMissingIssue(k) /\ ~KeyMissingCommits(k)

\* C3 amended: no commit and no issue key is in more than one of the three
\* buckets; an ignored commit without a non-empty fixup entry is in none of
\* them, and one with such an entry is matched only; an issue key of
\* ignore_jiras is never among the issues missing commits.
C3_BucketsDisjointIgnoredUnlessFixup ==
    Exited =>
        /\ \A c \in CommitSet : ~(Matched(c) /\ (Unidentified(c) \/ MissingIssue(c)))
        /\ \A k \in AllKeys :
            /\ ~(KeyMatched(k) /\ KeyMissingIssue(k))
            /\ ~(KeyMatched(k) /\ KeyMissingCommits(k))
            /\ ~(KeyMissingIssue(k) /\ KeyMissingCommits(k))
        /\ \A c \in CommitSet : c.hexsha \in ignore =>
            /\ ~Unidentified(c) /\ ~MissingIssue(c)
            /\ Matched(c) <=> DeclaredFor(c.hexsha) # {}
        /\ \A k \in ignore_jiras : ~KeyMissingCommits(k)

C3_Witness ==
    /\ Exited
    /\ \E c, d \in CommitSet :
        /\ c.hexsha \in ignore /\ DeclaredFor(c.hexsha) = {}
        /\ c.message[1] \in JiraKeyNames
        /\ Matched(d) /\ DeclaredFor(d.hexsha) # {}
    /\ \E k \in ignore_jiras : k \in IssueKeys(issues) /\ k \notin DOMAIN commits_by_id

\* C4: a commit without fixup entry, outside the skip set, whose message does
\* not start with an issue key but starts with "This reverts commit <hex>",
\* is indexed under the key <hex> and under no other.
C4_RevertFallbackKeyIsHash ==
    Exited => \A c \in CommitSet :
        (/\ DeclaredFor(c.hexsha) = {}
         /\ c.hexsha \notin to_skip
         /\ c.message[1] \notin JiraKeyNames
         /\ 1 \in RevertPlaces(c))
        => KeysOf(c) = {<<c.message[2]>>}

Position(c) == CHOOSE i \in DOMAIN commits : commits[i] = c
InDiscoveryOrder(list) ==
    \A i, j \in DOMAIN list : i < j => Position(list[i]) < Position(list[j])

\* C5: commits_missing_issues holds exactly one entry, the key with all the
\* commits indexed under it in discovery order, for each key of the index
\* that is neither a queried issue's key nor declared by an entry of the
\* fixup map, and no entry for another key.
C5_MissingIssuesExact ==
    Exited =>
        LET expected == {k \in DOMAIN commits_by_id :
                            k \notin IssueKeys(issues) /\ k \notin AllDeclared}
            entries == DOMAIN commits_missing_issues
        IN  /\ \A k \in expected :
                /\ Cardinality({i \in entries : commits_missing_issues[i][1] = k}) = 1
                /\ \A i \in entries : commits_missing_issues[i][1] = k =>
                    /\ commits_missing_issues[i][2] = commits_by_id[k]
                    /\ Range(commits_missing_issues[i][2]) = {c \in CommitSet : k \in KeysOf(c)}
                    /\ InDiscoveryOrder(commits_missing_issues[i][2])
            /\ \A i \in entries : commits_missing_issues[i][1] \in expected

C5_Witness ==
    /\ Exited
    /\ commits_missing_issues # <<>>
    /\ \E k \in AllDeclared : k \in DOMAIN commits_by_id /\ k \notin IssueKeys(issues)

\* C6: validate exits non-zero exactly when unidentified commits, issues
\* missing commits or commits missing issues is non-empty, and zero
\* otherwise; a commit of the skip set that no fixup indexes is in none of
\* the categories.
C6_ExitStatusIffDiscrepancy ==
    Exited =>
        /\ exit_status \in {0, 1}
        /\ exit_status # 0 <=>
            \/ unidentified_commits # <<>>
            \/ issues_missing_commits # <<>>
            \/ commits_missing_issues # <<>>
        /\ \A c \in CommitSet : c.hexsha \in to_skip /\ DeclaredFor(c.hexsha) = {} =>
            ~Unidentified(c) /\ ~MissingIssue(c) /\ ~Matched(c)

C6_Witness ==
    /\ Exited
    /\ exit_status = 1
    /\ unidentified_commits # <<>>
    /\ issues_missing_commits = <<>>
    /\ commits_missing_issues = <<>>
    /\ \E c \in CommitSet : c.hexsha \in to_skip /\ DeclaredFor(c.hexsha) = {}

OtherLabels(fv) == SelectSeq(fv, LAMBDA f : f # Alpha1 /\ f # Alpha2)

\* C9: the release-label rule is idempotent (a second run logs the same
\* labels before and after, and applying the rule to its result changes
\* nothing); its result holds 3.0.0-alpha1, never 3.0.0-alpha2, and keeps
\* every other label in its original order; {2.7.0} becomes
\* {2.7.0, 3.0.0-alpha1} and {3.0.0-alpha1, 3.0.0-alpha2} becomes
\* {3.0.0-alpha1}.
C9_LabelRuleIdempotent ==
    /\ l_runs >= 1 =>
        /\ Alpha1 \in Range(l_fix)
        /\ Alpha2 \notin Range(l_fix)
        /\ OtherLabels(l_fix) = OtherLabels(l_old)
        /\ NewFixVersions(l_fix) = l_fix
        /\ l_after = l_fix
        /\ (l_old = <<"2.7.0">> => l_fix = <<"2.7.0", Alpha1>>)
        /\ (l_old = <<Alpha1, Alpha2>> => l_fix = <<Alpha1>>)
    /\ l_runs >= 2 => l_before = l_after

C9_Witness ==
    /\ l_runs = 2
    /\ Alpha2 \in Range(l_old)
    /\ Alpha1 \notin Range(l_old)
    /\ Len(l_old) = MaxLabels

\* C10: against a tracker whose result set stays fixed, jira_query ends, and
\* when it has ended it holds every issue of the result exactly once, in
\* server order.
C10_QueryReturnsAll ==
    /\ [](q_pc = "done" => q_issues = ServerResult(q_total))
    /\ <>(q_pc = "done")

C10_Witness ==
    /\ q_pc = "done"
    /\ q_total > 2 * max_results
    /\ Len(q_issues) = q_total

\* C7: issue.update is called only under --force, and only after the
\* confirmation (raw_input) has returned; no run without --force updates.
C7_UpdateOnlyForcedAndConfirmed ==
    u_updates # <<>> => u_args.force /\ u_confirmed

C7_Witness ==
    /\ u_pc = "done"
    /\ Len(u_updates) = 2
    /\ u_confirmed

\* The keys the caller lists in the excludes file: its lines without their
\* line terminators.
ListedKeys(file) ==
    IF file = None THEN {}
    ELSE {StripNewline(x) : x \in Range(readlines(file))}

Touched(key) ==
    \/ key \in u_read
    \/ u_outfile # None /\ \E i \in 1..Len(u_outfile) : u_outfile[i].key = key
    \/ \E i \in 1..Len(u_updates) : u_updates[i].key = key

\* C8: every issue whose key is a line of the excludes file, the last line
\* with or without a newline included, is skipped: its labels are not read,
\* nothing is logged for it and issue.update is not called on it.
C8_ExcludedIssuesSkipped ==
    u_pc # "idle" => \A key \in ListedKeys(u_args.excludes) : ~Touched(key)

====
